---- MODULE Spec2Model ----
(***************************************************************************)
(* Model of fastest-rag-stack/app.py: a Streamlit script that is re-run    *)
(* from the top on every user event (file selection, the Clear button, a   *)
(* chat prompt).  st.session_state survives the re-runs; everything else   *)
(* is rebuilt by each run.  An exception that no handler of the script     *)
(* catches ends the run at that line; the session state written so far is  *)
(* kept.                                                                   *)
(*                                                                         *)
(* Texts are sequences of one-character strings.  An uploaded file is a    *)
(* record [ext, bytes]; the byte "?" stands for a byte sequence that is     *)
(* not valid in the file's format.                                         *)
(***************************************************************************)
EXTENDS Integers, Sequences, FiniteSets, TLC

VARIABLES
    session_state,   \* st.session_state: id, file_cache, messages, context
    uploaded_files,  \* value of the st.file_uploader widget
    prompt,          \* value of st.chat_input in the current run
    event,           \* the widget that triggered the current run
    pc,              \* position of the script: idle, ingest, chat, stream, done
    runs,            \* runs of the script so far
    aborted,         \* the last run ended by an uncaught exception
    qdrant_vdb,      \* the run's QdrantVDB_QB object (0: not constructed)
    embedder,        \* the run's EmbedData object (0: not constructed)
    next_obj,        \* identity of the next object constructed
    idx,             \* files of the batch whose loop iteration has finished
    reads,           \* the run's extractor calls, in order
    calls,           \* the run's embed / upsert calls, in order
    collection,      \* points of the Qdrant collection "chat_with_docs"
    tmp_files,       \* temporary files of the extractors still on disk
    turn,            \* what the run's chat turn did
    consumed,        \* chunks the stream has yielded so far
    full_response,   \* the local full_response of the stream loop
    placeholder,     \* what message_placeholder shows
    faults           \* failures of the environment injected so far

vars == <<session_state, uploaded_files, prompt, event, pc, runs, aborted, qdrant_vdb,
          embedder, next_obj, idx, reads, calls, collection, tmp_files,
          turn, consumed, full_response, placeholder, faults>>

----------------------------------------------------------------------------
(* Bounds of the model *)

MaxFiles == 2
MaxChunks == 2
MaxRuns == 2
MaxFaults == 1

----------------------------------------------------------------------------
(* Values *)

None == "None"

\* st.chat_input returns None when nothing was submitted; `if prompt:` treats
\* None and the empty string alike.
NoPrompt == <<>>

\* st.session_state.file_cache is a dict: a set of key/value pairs.
EmptyCache == {}
CachePut(cache, k, v) == { e \in cache : e.key # k } \cup { [key |-> k, value |-> v] }
CacheHas(cache, k) == \E e \in cache : e.key = k
CacheGet(cache, k) == (CHOOSE e \in cache : e.key = k).value

\* The upload samples, one of each format: a PDF with text, a corrupted DOCX
\* and a TXT that is blank once its undecodable byte is dropped.
SampleFiles ==
    { [ext |-> ".pdf",  bytes |-> <<"x">>],
      [ext |-> ".docx", bytes |-> <<"?">>],
      [ext |-> ".txt",  bytes |-> <<"?", " ">>] }

\* The selections of at most n distinct files of S, in every order.
Selections(S, n) ==
    { s \in UNION { [1..k -> S] : k \in 0..n } :
        \A i, j \in DOMAIN s : i # j => s[i] # s[j] }

Batches == Selections(SampleFiles, MaxFiles)

Prompts == { <<"q">> }

\* What the generation backend can yield: a chunk whose
\* raw["choices"][0]["delta"]["content"] is a string, one whose content is
\* None, and one that lacks the path.
Chunks ==
    { [kind |-> "text", content |-> <<"a">>],
      [kind |-> "text", content |-> <<"b">>],
      [kind |-> "none", content |-> <<>>],
      [kind |-> "missing", content |-> <<>>] }

Cursor == <<"|">>

----------------------------------------------------------------------------
(* reset_chat *)

\* reset_chat as it would be if it also emptied the file cache.
reset_chat_clears_cache(ss) ==
    [ss EXCEPT !.messages = <<>>, !.context = None, !.file_cache = EmptyCache]

reset_chat(ss) == [ss EXCEPT !.messages = <<>>, !.context = None]

----------------------------------------------------------------------------
(* The extractors.  io_fail: file.read() or tmp.write() raises; rm_fail:   *)
(* os.remove raises.  The result records whether an exception left the     *)
(* function, the text returned, the warning written with st.write and the  *)
(* temporary files the call left on disk.                                  *)

Corrupt(bytes) == \E i \in DOMAIN bytes : bytes[i] = "?"

\* SimpleDirectoryReader.load_data on a readable file: its documents.
load_data(bytes) == << bytes >>

RECURSIVE JoinDocs(_)
JoinDocs(docs) ==
    IF docs = <<>> THEN <<>>
    ELSE Head(docs) \o <<"\n">> \o JoinDocs(Tail(docs))

read_pdf_file(file, io_fail, rm_fail) ==
    IF io_fail
    THEN [raised |-> TRUE, text |-> <<>>, warning |-> None, tmp_left |-> 1]
    ELSE [raised |-> FALSE,
          text |-> IF Corrupt(file.bytes) THEN <<>> ELSE JoinDocs(load_data(file.bytes)),
          warning |-> IF Corrupt(file.bytes) THEN "Error reading PDF" ELSE None,
          tmp_left |-> IF rm_fail THEN 1 ELSE 0]

read_docx_file(file, io_fail, rm_fail) ==
    IF io_fail
    THEN [raised |-> TRUE, text |-> <<>>, warning |-> None, tmp_left |-> 1]
    ELSE [raised |-> FALSE,
          text |-> IF Corrupt(file.bytes) THEN <<>> ELSE file.bytes,
          warning |-> IF Corrupt(file.bytes) THEN "Error reading DOCX" ELSE None,
          tmp_left |-> IF rm_fail THEN 1 ELSE 0]

\* bytes.decode("utf-8", errors="ignore"): undecodable bytes are dropped.
RECURSIVE decode_ignore(_)
decode_ignore(bytes) ==
    IF bytes = <<>> THEN <<>>
    ELSE IF Head(bytes) = "?" THEN decode_ignore(Tail(bytes))
    ELSE <<Head(bytes)>> \o decode_ignore(Tail(bytes))

read_txt_file(file, io_fail, rm_fail) ==
    IF io_fail
    THEN [raised |-> FALSE, text |-> <<>>, warning |-> "Error reading TXT", tmp_left |-> 0]
    ELSE [raised |-> FALSE, text |-> decode_ignore(file.bytes), warning |-> None, tmp_left |-> 0]

\* The dispatch on file.name.lower().endswith(...).
ReadFile(file, io_fail, rm_fail) ==
    IF file.ext = ".pdf" THEN read_pdf_file(file, io_fail, rm_fail)
    ELSE IF file.ext = ".docx" THEN read_docx_file(file, io_fail, rm_fail)
    ELSE IF file.ext = ".txt" THEN read_txt_file(file, io_fail, rm_fail)
    ELSE [raised |-> FALSE, text |-> <<>>, warning |-> None, tmp_left |-> 0]

\* str.strip()
Whitespace == {" ", "\n"}

RECURSIVE LStrip(_)
LStrip(s) ==
    IF s = <<>> THEN <<>>
    ELSE IF Head(s) \in Whitespace THEN LStrip(Tail(s)) ELSE s

RECURSIVE RStrip(_)
RStrip(s) ==
    IF s = <<>> THEN <<>>
    ELSE IF s[Len(s)] \in Whitespace THEN RStrip(SubSeq(s, 1, Len(s) - 1)) ELSE s

strip(s) == RStrip(LStrip(s))

----------------------------------------------------------------------------
(* The stream loop's body *)

\* The loop body as it would be if it put the new text in front.
Accumulate_prepend(full, chunk) ==
    IF chunk.kind = "text" THEN chunk.content \o full ELSE full

\* The loop body as it would be if its handler dropped what was accumulated.
Accumulate_reset_on_error(full, chunk) ==
    IF chunk.kind = "text" THEN full \o chunk.content ELSE <<>>

Accumulate(full, chunk) ==
    IF chunk.kind = "text" THEN full \o chunk.content ELSE full

----------------------------------------------------------------------------
(* The engine *)

\* The construction as it would be if the Retriever got an EmbedData of its own.
BuildQueryEngine_own_embedder(vdb, emb) ==
    [retriever |-> [vector_db |-> vdb, embeddata |-> emb + 1],
     llm_name |-> "Meta-Llama-3.3-70B-Instruct"]

BuildQueryEngine(vdb, emb) ==
    [retriever |-> [vector_db |-> vdb, embeddata |-> emb],
     llm_name |-> "Meta-Llama-3.3-70B-Instruct"]

\* QdrantVDB_QB.create_collection: a no-op on a collection that exists.
create_collection(points) == points

----------------------------------------------------------------------------
(* The state after the first page load: no file selected, no prompt. *)

Init ==
    /\ session_state = [id |-> "uuid", file_cache |-> EmptyCache,
                        messages |-> <<>>, context |-> None]
    /\ uploaded_files = <<>>
    /\ prompt = NoPrompt
    /\ event = "none"
    /\ pc = "idle"
    /\ runs = 0
    /\ aborted = FALSE
    /\ qdrant_vdb = 0
    /\ embedder = 0
    /\ next_obj = 1
    /\ idx = 0
    /\ reads = <<>>
    /\ calls = <<>>
    /\ collection = {}
    /\ tmp_files = 0
    /\ turn = "none"
    /\ consumed = <<>>
    /\ full_response = <<>>
    /\ placeholder = <<>>
    /\ faults = 0

\* The environment fails (an I/O error, a backend error) n more times.
Fault(n) ==
    /\ faults + n <= MaxFaults
    /\ faults' = faults + n

B2N(b) == IF b THEN 1 ELSE 0

\* A run of the script from its top down to the ingestion loop.
ScriptTop(files) ==
    /\ runs < MaxRuns
    /\ runs' = runs + 1
    /\ aborted' = FALSE
    /\ idx' = 0
    /\ reads' = <<>>
    /\ calls' = <<>>
    /\ turn' = "none"
    /\ consumed' = <<>>
    /\ full_response' = <<>>
    /\ placeholder' = <<>>
    /\ tmp_files' = tmp_files
    /\ faults' = faults
    /\ IF files # <<>>
       THEN /\ qdrant_vdb' = next_obj
            /\ embedder' = next_obj + 1
            /\ next_obj' = next_obj + 2
            /\ collection' = create_collection(collection)
            /\ pc' = "ingest"
       ELSE /\ qdrant_vdb' = 0
            /\ embedder' = 0
            /\ next_obj' = next_obj
            /\ collection' = collection
            /\ pc' = "chat"

\* The user changes the selection of the file uploader.
UploadFiles(files) ==
    /\ pc = "idle"
    /\ files # uploaded_files
    /\ uploaded_files' = files
    /\ event' = "upload"
    /\ prompt' = NoPrompt
    /\ session_state' = session_state
    /\ ScriptTop(files)

\* The user clicks "Clear": the callback runs, then the script.
ClickClear ==
    /\ pc = "idle"
    /\ session_state' = reset_chat(session_state)
    /\ event' = "clear"
    /\ prompt' = NoPrompt
    /\ uploaded_files' = uploaded_files
    /\ ScriptTop(uploaded_files)

\* The user submits a prompt.
SubmitPrompt(p) ==
    /\ pc = "idle"
    /\ prompt' = p
    /\ event' = "prompt"
    /\ session_state' = session_state
    /\ uploaded_files' = uploaded_files
    /\ ScriptTop(uploaded_files)

Embedding(text, emb) == [of |-> text, by |-> emb]

\* One iteration of the loop over uploaded_files.
ProcessFile(io_fail, rm_fail, embed_ok, upsert_ok) ==
    /\ pc = "ingest"
    /\ idx < Len(uploaded_files)
    /\ LET file == uploaded_files[idx + 1]
           r == ReadFile(file, io_fail, rm_fail)
           text_content == r.text
           embeddings == << Embedding(text_content, embedder) >>
           embed_call == [op |-> "embed", texts |-> <<text_content>>,
                          embeddings |-> <<>>, ok |-> embed_ok]
           upsert_call == [op |-> "upsert", texts |-> <<text_content>>,
                           embeddings |-> embeddings, ok |-> upsert_ok]
           reached_embed == ~r.raised /\ strip(text_content) # <<>>
       IN  /\ io_fail => ~rm_fail
           /\ rm_fail => file.ext # ".txt"
           /\ (~embed_ok \/ ~upsert_ok) => reached_embed
           /\ ~embed_ok => upsert_ok
           /\ Fault(B2N(io_fail) + B2N(rm_fail) + B2N(~embed_ok) + B2N(~upsert_ok))
           /\ reads' = Append(reads, [file |-> file, raised |-> r.raised,
                                      text |-> r.text, warning |-> r.warning])
           /\ tmp_files' = tmp_files + r.tmp_left
           /\ IF r.raised
              THEN /\ pc' = "done" /\ aborted' = TRUE
                   /\ UNCHANGED <<idx, calls, collection>>
              ELSE IF strip(text_content) = <<>>
              THEN /\ idx' = idx + 1
                   /\ UNCHANGED <<pc, aborted, calls, collection>>
              ELSE IF ~embed_ok
              THEN /\ calls' = Append(calls, embed_call)
                   /\ pc' = "done" /\ aborted' = TRUE
                   /\ UNCHANGED <<idx, collection>>
              ELSE IF ~upsert_ok
              THEN /\ calls' = calls \o <<embed_call, upsert_call>>
                   /\ pc' = "done" /\ aborted' = TRUE
                   /\ UNCHANGED <<idx, collection>>
              ELSE /\ calls' = calls \o <<embed_call, upsert_call>>
                   /\ collection' = collection \cup
                          { [text |-> text_content, vdb |-> qdrant_vdb, emb |-> embedder] }
                   /\ idx' = idx + 1
                   /\ UNCHANGED <<pc, aborted>>
    /\ UNCHANGED <<session_state, uploaded_files, prompt, event, runs, qdrant_vdb, embedder,
                   next_obj, turn, consumed, full_response, placeholder>>

\* After the loop: build the engine and cache it.
BuildEngine ==
    /\ pc = "ingest"
    /\ idx = Len(uploaded_files)
    /\ session_state' = [session_state EXCEPT
                            !.file_cache = CachePut(@, "combined_engine",
                                              BuildQueryEngine(qdrant_vdb, embedder))]
    /\ pc' = "chat"
    /\ UNCHANGED <<uploaded_files, prompt, event, runs, aborted, qdrant_vdb, embedder, next_obj,
                   idx, reads, calls, collection, tmp_files, turn, consumed,
                   full_response, placeholder, faults>>

\* The chat section up to the call of query_engine.query.
ChatSection(query_ok) ==
    /\ pc = "chat"
    /\ IF prompt = NoPrompt
       THEN /\ query_ok
            /\ pc' = "done"
            /\ UNCHANGED <<session_state, turn, aborted, faults>>
       ELSE /\ session_state' = [session_state EXCEPT
                   !.messages = Append(@, [role |-> "user", content |-> prompt])]
            /\ IF ~CacheHas(session_state.file_cache, "combined_engine")
               THEN /\ query_ok
                    /\ turn' = "no_context" /\ pc' = "done"
                    /\ UNCHANGED <<aborted, faults>>
               ELSE IF ~query_ok
               THEN /\ Fault(1)
                    /\ turn' = "query_raised" /\ pc' = "done" /\ aborted' = TRUE
               ELSE /\ turn' = "streaming" /\ pc' = "stream"
                    /\ UNCHANGED <<aborted, faults>>
    /\ UNCHANGED <<uploaded_files, prompt, event, runs, qdrant_vdb, embedder, next_obj, idx, reads,
                   calls, collection, tmp_files, consumed, full_response, placeholder>>

\* The stream yields a chunk and the loop body handles it.  render_ok: the
\* placeholder's markdown call returns.
ConsumeChunk(chunk, render_ok) ==
    /\ pc = "stream"
    /\ Len(consumed) < MaxChunks
    /\ render_ok \/ chunk.kind = "text"
    /\ Fault(B2N(~render_ok))
    /\ consumed' = Append(consumed, chunk)
    /\ full_response' = Accumulate(full_response, chunk)
    /\ placeholder' = IF chunk.kind = "text" /\ render_ok
                      THEN full_response' \o Cursor ELSE placeholder
    /\ UNCHANGED <<session_state, uploaded_files, prompt, event, runs, pc, aborted, qdrant_vdb,
                   embedder, next_obj, idx, reads, calls, collection, tmp_files, turn>>

\* The stream's iterator raises instead of yielding.
StreamRaises ==
    /\ pc = "stream"
    /\ Fault(1)
    /\ turn' = "stream_raised"
    /\ pc' = "done"
    /\ aborted' = TRUE
    /\ UNCHANGED <<session_state, uploaded_files, prompt, event, runs, qdrant_vdb, embedder,
                   next_obj, idx, reads, calls, collection, tmp_files, consumed,
                   full_response, placeholder>>

\* The stream is exhausted: show the answer and append it to the transcript.
FinishStream ==
    /\ pc = "stream"
    /\ placeholder' = full_response
    /\ session_state' = [session_state EXCEPT
           !.messages = Append(@, [role |-> "assistant", content |-> full_response])]
    /\ turn' = "completed"
    /\ pc' = "done"
    /\ UNCHANGED <<uploaded_files, prompt, event, runs, aborted, qdrant_vdb, embedder, next_obj,
                   idx, reads, calls, collection, tmp_files, consumed, full_response,
                   faults>>

\* The run is over (the script reached its end, or an exception ended it):
\* its local variables are gone and the page waits for the next event.
ScriptEnds ==
    /\ pc = "done"
    /\ pc' = "idle"
    /\ event' = "none"
    /\ prompt' = NoPrompt
    /\ aborted' = FALSE
    /\ qdrant_vdb' = 0
    /\ embedder' = 0
    /\ idx' = 0
    /\ reads' = <<>>
    /\ calls' = <<>>
    /\ turn' = "none"
    /\ consumed' = <<>>
    /\ full_response' = <<>>
    /\ placeholder' = <<>>
    /\ UNCHANGED <<session_state, uploaded_files, runs, next_obj, collection,
                   tmp_files, faults>>

Next ==
    \/ \E files \in Batches : UploadFiles(files)
    \/ ClickClear
    \/ \E p \in Prompts : SubmitPrompt(p)
    \/ \E io_fail, rm_fail, embed_ok, upsert_ok \in BOOLEAN :
          ProcessFile(io_fail, rm_fail, embed_ok, upsert_ok)
    \/ BuildEngine
    \/ \E query_ok \in BOOLEAN : ChatSection(query_ok)
    \/ \E chunk \in Chunks, render_ok \in BOOLEAN : ConsumeChunk(chunk, render_ok)
    \/ StreamRaises
    \/ FinishStream
    \/ ScriptEnds

Spec == Init /\ [][Next]_vars

----------------------------------------------------------------------------
(* Properties *)

Messages == session_state.messages
HasEngine == CacheHas(session_state.file_cache, "combined_engine")
Engine == CacheGet(session_state.file_cache, "combined_engine")
LastMessage == Messages[Len(Messages)]
BackendCalled == turn \in {"streaming", "completed", "query_raised", "stream_raised"}
Malformed(chunk) == chunk.kind # "text"

\* The turn failed: no cached engine, query raising, the stream raising, or
\* a stream all of whose chunks failed to decode.
TurnFailed ==
    \/ turn \in {"no_context", "query_raised", "stream_raised"}
    \/ /\ turn = "completed"
       /\ consumed # <<>>
       /\ \A i \in DOMAIN consumed : Malformed(consumed[i])

\* The concatenation, in emission order, of the fragments of a sequence of
\* chunks; a chunk that fails to decode has no fragment.
RECURSIVE ConcatFragments(_)
ConcatFragments(chunks) ==
    IF chunks = <<>> THEN <<>>
    ELSE (IF Malformed(Head(chunks)) THEN <<>> ELSE Head(chunks).content)
         \o ConcatFragments(Tail(chunks))

\* The calls a batch is to make, from the texts its extractor calls returned.
RECURSIVE ExpectedCalls(_, _)
ExpectedCalls(rs, emb) ==
    IF rs = <<>> THEN <<>>
    ELSE (IF strip(Head(rs).text) = <<>> THEN <<>>
          ELSE << [op |-> "embed", texts |-> <<Head(rs).text>>,
                   embeddings |-> <<>>, ok |-> TRUE],
                  [op |-> "upsert", texts |-> <<Head(rs).text>>,
                   embeddings |-> <<Embedding(Head(rs).text, emb)>>, ok |-> TRUE] >>)
         \o ExpectedCalls(Tail(rs), emb)

\* The cached engine is answering, or has answered, the run's prompt.
Answering == pc = "stream" \/ turn = "completed"

\* C1: a document-level failure never aborts the batch: when a run is over,
\* every file of uploaded_files has been processed.
C1_BatchNeverAborted ==
    pc = "done" => idx = Len(uploaded_files)

\* C2: no exception leaves an extractor, and a corrupted sample gives empty
\* text together with a warning.
C2_ExtractorNeverRaises ==
    \A i \in DOMAIN reads :
        /\ ~reads[i].raised
        /\ reads[i].warning # None => reads[i].text = <<>>
        /\ (reads[i].file.ext \in {".pdf", ".docx"} /\ Corrupt(reads[i].file.bytes))
               => reads[i].warning # None

\* C3: after any sequence of extractor calls no temporary file remains.
C3_NoTempFileRemains ==
    tmp_files = 0

\* C4: a prompt submitted while the collection holds no point ingested by the
\* session gets the fixed no-context answer, and query_engine.query is called
\* only if at least one document has been ingested.
C4_NoContextShortCircuit ==
    (turn # "none" /\ collection = {}) => (turn = "no_context" /\ ~BackendCalled)

\* C5: a failed turn (no cached engine, query raising, the stream raising, a
\* stream whose every chunk failed to parse) appends no assistant entry: the
\* transcript ends with the user's prompt.
C5_FailedTurnNotAppended ==
    (pc = "done" /\ TurnFailed) => LastMessage.role = "user"

\* C6: streaming concatenation law: during consumption full_response is the
\* concatenation, in emission order, of the fragments of the chunks consumed so
\* far, and for a completed stream that concatenation is what the placeholder
\* shows and what the transcript's last entry holds.
C6_ConcatenationLaw ==
    /\ pc = "stream" => full_response = ConcatFragments(consumed)
    /\ turn = "completed" =>
          /\ placeholder = ConcatFragments(consumed)
          /\ LastMessage = [role |-> "assistant", content |-> ConcatFragments(consumed)]

C6_Witness ==
    /\ turn = "completed"
    /\ Len(consumed) = 2
    /\ consumed[1].content = <<"a">>
    /\ consumed[2].content = <<"b">>

\* C7: a chunk that fails to decode changes nothing but the position in the
\* stream: full_response keeps its value, the loop goes on, and a well-formed
\* chunk, also one after a malformed chunk, is appended at the end.
C7_MalformedChunkSkipped ==
    [][ (pc = "stream" /\ Len(consumed') = Len(consumed) + 1) =>
            LET chunk == consumed'[Len(consumed')]
            IN  /\ Malformed(chunk) =>
                      /\ full_response' = full_response
                      /\ pc' = "stream"
                      /\ aborted' = FALSE
                /\ ~Malformed(chunk) => full_response' = full_response \o chunk.content
      ]_vars

C7_Witness ==
    /\ pc = "stream"
    /\ Len(consumed) = 2
    /\ Malformed(consumed[1])
    /\ consumed[2].kind = "text"
    /\ full_response = consumed[2].content

\* C8: when the loop is over, the run's calls are exactly one embed call on
\* the one-element list of the text followed by one upsert of that text with
\* the embeddings returned, for each file whose extracted text is not blank, in
\* order, and every one of them returned.
C8_OnePointPerDocument ==
    pc \in {"chat", "stream", "done"} => calls = ExpectedCalls(reads, embedder)

C10_ResetFrameEngineKept ==
    [][ /\ (pc = "idle" /\ event' = "clear") =>
              /\ session_state'.messages = <<>>
              /\ session_state'.context = None
              /\ session_state'.id = session_state.id
              /\ session_state'.file_cache = session_state.file_cache
        /\ session_state'.file_cache # session_state.file_cache =>
              (pc = "ingest" /\ idx = Len(uploaded_files))
        /\ HasEngine => CacheHas(session_state'.file_cache, "combined_engine")
      ]_vars

C10_Witness ==
    /\ event = "clear"
    /\ pc = "done"
    /\ HasEngine
    /\ Messages = <<>>

====
